---- MODULE Spec2Model ----
\* Model of the Catalog Downloader (data.py): the per-entry download loop of
\* download_geojson_files and the top-level exception handlers of __main__.
EXTENDS Integers, Sequences, FiniteSets, TLC

\* ---------------------------------------------------------------- bounds
\* Number of entries of the compiled-in catalog that the model enumerates.
MaxEntries == 2

\* Destinations the catalog entries may name: two files in one directory and
\* one file in another, so that entries can share a path, share only a
\* directory, or share nothing.
Directories == {"features/coastlines", "features/land_ocean"}

Destinations ==
    { <<"features/coastlines", "coastline_10m.geojson">>,
      <<"features/coastlines", "coastline_island_10m.geojson">>,
      <<"features/land_ocean", "land_10m.geojson">> }

\* ------------------------------------------------------------ data model
\* The optional "should_overwrite" key of an entry: absent, or one boolean.
Overrides == { <<>>, <<TRUE>>, <<FALSE>> }

\* One value of the geojson_files dictionary.  The key (the source filename)
\* is the entry's position in the dictionary: keys of a dict are distinct and
\* keep their insertion order.
Entries ==
    { [download |-> dl, directory |-> d[1], save_as |-> d[2], should_overwrite |-> o] :
        dl \in BOOLEAN, d \in Destinations, o \in Overrides }

\* Content of a file that was on disk before the run.
OldContent == <<0>>

\* Content of a file opened with mode 'wb' and not yet written.
Truncated == << >>

\* response.content of a successful GET of base_url + filename.
ResponseContent(filename) == <<filename>>

\* The code points of '/' and of '\\'.
Slash == 47
Backslash == 92

\* os.path.join(directory, save_as)
PathJoin(directory, save_as) == <<directory, save_as>>

VARIABLES
    geojson_files,     \* the catalog, in declaration order
    should_overwrite,  \* global default overwrite flag
    dirs,              \* file system: the directories that exist
    files,             \* file system: path -> content, for the paths that exist
    dirs0, files0,     \* the file system as it was before the run
    pc,                \* position of the process
    i,                 \* enumerate() counter of the loop (1-based)
    success_count,
    failed_files,
    created_dirs,
    response,          \* the response object of the current iteration
    http_log,          \* network: the GET requests issued, in order
    fs_log,            \* file system calls made by the loop: <<call, filename>>
    slept,             \* filenames after whose download time.sleep(1) ran
    interrupted,       \* a KeyboardInterrupt was delivered
    raised,            \* exception that reached the handlers of __main__
    console,           \* the exit-path messages printed
    exit_code,         \* << >> while running, <<status>> once exited
    \* --- generate_index.py
    ix_sep,            \* os.sep of the platform, a code point
    ix_tree,           \* << >>, or <<d>> with d the directory "features"
    index_html,        \* << >>, or <<doc>> with doc the content of index.html
    ix_now,            \* wall clock, in seconds
    ix_geojson_files,  \* the list geojson_files of generate_index_html
    ix_docs,           \* the documents written by the calls so far, in order
    ix_calls,          \* number of calls of generate_index_html so far
    ix_console         \* what generate_index_html printed

vars == << geojson_files, should_overwrite, dirs, files, dirs0, files0, pc, i,
           success_count, failed_files, created_dirs, response, http_log,
           fs_log, slept, interrupted, raised, console, exit_code,
           ix_sep, ix_tree, index_html, ix_now, ix_geojson_files, ix_docs,
           ix_calls, ix_console >>

\* The state of the Index Generator, a separate program.
ixvars == << ix_sep, ix_tree, index_html, ix_now, ix_geojson_files, ix_docs,
            ix_calls, ix_console >>

\* What a Downloader run never changes: its configuration, the file system
\* as it was before the run, and the Index Generator's state.
config == << geojson_files, should_overwrite, dirs0, files0, ixvars >>

\* The state of the Downloader.
dlvars == << geojson_files, should_overwrite, dirs, files, dirs0, files0, pc, i,
            success_count, failed_files, created_dirs, response, http_log,
            fs_log, slept, interrupted, raised, console, exit_code >>

\* ------------------------------------------------------------ helpers
Filenames == 1..Len(geojson_files)

\* files_to_download, as the ordered list of its keys.
FilesToDownloadMutAll == [k \in Filenames |-> k]
files_to_download ==
    SelectSeq([k \in Filenames |-> k], LAMBDA k : geojson_files[k].download)

\* config.get("should_overwrite", should_overwrite)
FileShouldOverwriteMutDefault(cfg) == should_overwrite
file_should_overwrite(cfg) ==
    IF cfg.should_overwrite = << >> THEN should_overwrite ELSE cfg.should_overwrite[1]

filepath(cfg) == PathJoin(cfg.directory, cfg.save_as)

\* os.path.exists(filepath)
PathExists(p) == p \in DOMAIN files

\* The clause "except requests.RequestException" of the loop body.
ItemHandlerCatchesMutAll(exc) == TRUE
ItemHandlerCatches(exc) == exc = "RequestException"

\* The current entry of the loop.
filename == files_to_download[i]
cur == geojson_files[filename]

\* len(files_to_download)
NumToDownload == Len(files_to_download)

\* ------------------------------------------------------------ initial state
TypeOK ==
    /\ geojson_files \in [1..MaxEntries -> Entries]
    /\ should_overwrite \in BOOLEAN
    /\ dirs \subseteq Directories
    /\ pc \in {"makedirs", "exists", "get", "save", "sleep", "summary", "exited"}
    /\ i \in 1..(MaxEntries + 1)
    /\ success_count \in 0..MaxEntries
    /\ created_dirs \subseteq Directories
    /\ interrupted \in BOOLEAN
    /\ Len(exit_code) <= 1

\* The file systems a run can start from: a file lies in an existing directory.
InitialFileSystems ==
    { fs \in [d : SUBSET Directories, f : SUBSET Destinations] :
        \A p \in fs.f : p[1] \in fs.d }

Init ==
    /\ geojson_files \in [1..MaxEntries -> Entries]
    /\ should_overwrite \in BOOLEAN
    /\ \E fs \in InitialFileSystems :
          /\ dirs = fs.d
          /\ files = [p \in fs.f |-> OldContent]
    /\ dirs0 = dirs
    /\ files0 = files
    /\ i = 1
    /\ pc = IF NumToDownload = 0 THEN "summary" ELSE "makedirs"
    /\ success_count = 0
    /\ failed_files = << >>
    /\ created_dirs = {}
    /\ response = << >>
    /\ http_log = << >>
    /\ fs_log = {}
    /\ slept = {}
    /\ interrupted = FALSE
    /\ raised = "none"
    /\ console = {}
    /\ exit_code = << >>
    /\ ix_sep = Slash
    /\ ix_tree = << >>
    /\ index_html = << >>
    /\ ix_now = 0
    /\ ix_geojson_files = << >>
    /\ ix_docs = << >>
    /\ ix_calls = 0
    /\ ix_console = << >>

\* ------------------------------------------------------------ control flow
\* The handlers of __main__: KeyboardInterrupt exits 0, any other Exception
\* exits 1.
MainHandlerMutExit1(exc) ==
    /\ raised' = exc
    /\ pc' = "exited"
    /\ console' = console \cup {IF exc = "KeyboardInterrupt"
                                 THEN "Process interrupted by user"
                                 ELSE "Unexpected error occurred"}
    /\ exit_code' = <<1>>
    /\ UNCHANGED i
MainHandler(exc) ==
    /\ raised' = exc
    /\ pc' = "exited"
    /\ IF exc = "KeyboardInterrupt"
         THEN /\ console' = console \cup {"Process interrupted by user"}
              /\ exit_code' = <<0>>
         ELSE /\ console' = console \cup {"Unexpected error occurred"}
              /\ exit_code' = <<1>>
    /\ UNCHANGED i

\* The for statement takes the next item, or the loop ends.
NextItem ==
    /\ i' = i + 1
    /\ pc' = IF i + 1 > NumToDownload THEN "summary" ELSE "makedirs"
    /\ UNCHANGED << raised, console, exit_code >>

\* The body of the except clause of the loop: print the error, nothing else.
ItemHandlerBodyMutRetry ==
    /\ pc' = "get"
    /\ UNCHANGED << i, raised, console, exit_code >>
ItemHandlerBodyMutBreak ==
    /\ pc' = "summary"
    /\ UNCHANGED << i, raised, console, exit_code >>
ItemHandlerBody == NextItem

\* An exception raised inside the try block of the loop body.
Raise(exc) ==
    IF ItemHandlerCatches(exc) THEN ItemHandlerBody ELSE MainHandler(exc)

\* ------------------------------------------------------------ the loop body
\* with open(filepath, 'wb') as f: f.write(content)
WriteFileMutKeep(p, content) ==
    [q \in DOMAIN files \cup {p} |-> IF q \in DOMAIN files THEN files[q] ELSE content]
WriteFile(p, content) ==
    [q \in DOMAIN files \cup {p} |-> IF q = p THEN content ELSE files[q]]

\* Lines 209-214 when os.makedirs returns (or is not called at all).
EnsureDirectory ==
    /\ pc = "makedirs"
    /\ IF cur.directory \notin created_dirs
         THEN /\ dirs' = dirs \cup {cur.directory}
              /\ created_dirs' = created_dirs \cup {cur.directory}
              /\ fs_log' = fs_log \cup {<<"makedirs", filename>>}
         ELSE UNCHANGED << dirs, created_dirs, fs_log >>
    /\ pc' = "exists"
    /\ UNCHANGED << config, files, i, success_count, failed_files, response,
                    http_log, slept, interrupted, raised, console, exit_code >>

\* Line 212 when os.makedirs raises OSError.
EnsureDirectoryFails ==
    /\ pc = "makedirs"
    /\ cur.directory \notin created_dirs
    /\ fs_log' = fs_log \cup {<<"makedirs", filename>>}
    /\ Raise("OSError")
    /\ UNCHANGED << config, dirs, files, success_count, failed_files,
                    created_dirs, response, http_log, slept, interrupted >>

\* Lines 217-220: skip the entry when the file exists and is not to be
\* overwritten.
CheckExistsMutSkipExisting ==
    /\ pc = "exists"
    /\ IF PathExists(filepath(cur))
         THEN NextItem
         ELSE /\ pc' = "get"
              /\ UNCHANGED << i, raised, console, exit_code >>
    /\ UNCHANGED << config, dirs, files, success_count, failed_files,
                    created_dirs, response, http_log, fs_log, slept, interrupted >>
CheckExists ==
    /\ pc = "exists"
    /\ IF PathExists(filepath(cur)) /\ ~file_should_overwrite(cur)
         THEN NextItem
         ELSE /\ pc' = "get"
              /\ UNCHANGED << i, raised, console, exit_code >>
    /\ UNCHANGED << config, dirs, files, success_count, failed_files,
                    created_dirs, response, http_log, fs_log, slept, interrupted >>

\* Lines 225-227 when the GET returns a 2xx response.
GetOk ==
    /\ pc = "get"
    /\ http_log' = Append(http_log, [filename |-> filename, ok |-> TRUE])
    /\ response' = ResponseContent(filename)
    /\ pc' = "save"
    /\ UNCHANGED << config, dirs, files, i, success_count, failed_files,
                    created_dirs, fs_log, slept, interrupted, raised, console,
                    exit_code >>

\* Lines 226-227 when requests.get or raise_for_status raises
\* RequestException (transport error or non-2xx status).
GetFailsMutOpenFirst ==
    /\ pc = "get"
    /\ http_log' = Append(http_log, [filename |-> filename, ok |-> FALSE])
    /\ files' = WriteFile(filepath(cur), Truncated)
    /\ Raise("RequestException")
    /\ UNCHANGED << config, dirs, success_count, failed_files,
                    created_dirs, response, fs_log, slept, interrupted >>
GetFails ==
    /\ pc = "get"
    /\ http_log' = Append(http_log, [filename |-> filename, ok |-> FALSE])
    /\ Raise("RequestException")
    /\ UNCHANGED << config, dirs, files, success_count, failed_files,
                    created_dirs, response, fs_log, slept, interrupted >>

\* Lines 230-251 when the file is written.
SaveOk ==
    /\ pc = "save"
    /\ files' = WriteFile(filepath(cur), response)
    /\ fs_log' = fs_log \cup {<<"open", filename>>, <<"written", filename>>}
    /\ success_count' = success_count + 1
    /\ IF i < NumToDownload
         THEN /\ pc' = "sleep"
              /\ UNCHANGED << i, raised, console, exit_code >>
         ELSE NextItem
    /\ UNCHANGED << config, dirs, failed_files, created_dirs, response,
                    http_log, slept, interrupted >>

\* Line 230 when open raises OSError: the file is not touched.
SaveOpenFails ==
    /\ pc = "save"
    /\ fs_log' = fs_log \cup {<<"open", filename>>}
    /\ Raise("OSError")
    /\ UNCHANGED << config, dirs, files, success_count, failed_files,
                    created_dirs, response, http_log, slept, interrupted >>

\* Line 231 when write raises OSError: open has truncated the file.
SaveWriteFails ==
    /\ pc = "save"
    /\ files' = WriteFile(filepath(cur), Truncated)
    /\ fs_log' = fs_log \cup {<<"open", filename>>}
    /\ Raise("OSError")
    /\ UNCHANGED << config, dirs, success_count, failed_files, created_dirs,
                    response, http_log, slept, interrupted >>

\* Line 251: time.sleep(1)
Sleep ==
    /\ pc = "sleep"
    /\ slept' = slept \cup {filename}
    /\ NextItem
    /\ UNCHANGED << config, dirs, files, success_count, failed_files,
                    created_dirs, response, http_log, fs_log, interrupted >>

\* Lines 256-286: the summary, then sys.exit(0).
Summary ==
    /\ pc = "summary"
    /\ console' = console \cup {"=== COMPLETE ==="}
    /\ exit_code' = <<0>>
    /\ pc' = "exited"
    /\ UNCHANGED << config, dirs, files, i, success_count, failed_files,
                    created_dirs, response, http_log, fs_log, slept,
                    interrupted, raised >>

\* Ctrl+C: signal_handler is never installed, so Python raises
\* KeyboardInterrupt at the point the process has reached.
Interrupt ==
    /\ pc # "exited"
    /\ interrupted' = TRUE
    /\ IF pc = "summary"
         THEN MainHandler("KeyboardInterrupt")
         ELSE Raise("KeyboardInterrupt")
    /\ UNCHANGED << config, dirs, files, success_count, failed_files,
                    created_dirs, response, http_log, fs_log, slept >>

Next ==
    \/ EnsureDirectory
    \/ EnsureDirectoryFails
    \/ CheckExists
    \/ GetOk
    \/ GetFails
    \/ SaveOk
    \/ SaveOpenFails
    \/ SaveWriteFails
    \/ Sleep
    \/ Summary
    \/ Interrupt

Spec == Init /\ [][Next]_vars

\* ------------------------------------------------------------ vocabulary
\* of the properties, in the terms of the catalog and of what the network and
\* the file system saw.
Enabled(k) == geojson_files[k].download

\* The entry's override if present, else the global default.
EffectiveOverwrite(k) ==
    IF geojson_files[k].should_overwrite = <<TRUE>> THEN TRUE
    ELSE IF geojson_files[k].should_overwrite = <<FALSE>> THEN FALSE
    ELSE should_overwrite

Dest(k) == <<geojson_files[k].directory, geojson_files[k].save_as>>

Requested(k) == \E n \in 1..Len(http_log) : http_log[n].filename = k
FetchedOk(k) == \E n \in 1..Len(http_log) : http_log[n].filename = k /\ http_log[n].ok
FetchFailed(k) == \E n \in 1..Len(http_log) : http_log[n].filename = k /\ ~http_log[n].ok
AllFetchesOk == \A n \in 1..Len(http_log) : http_log[n].ok

Completed == pc = "exited" /\ "=== COMPLETE ===" \in console

EnabledEntries == {k \in Filenames : Enabled(k)}

\* ------------------------------------------------------------ C1
\* C1, as stated: an enabled entry whose destination existed before the run
\* and whose effective overwrite flag is false is never requested, and when
\* the run has completed its destination holds what it held before the run.
C1Original ==
    Completed =>
        \A k \in EnabledEntries :
            (Dest(k) \in DOMAIN files0 /\ ~EffectiveOverwrite(k)) =>
                /\ ~Requested(k)
                /\ files[Dest(k)] = files0[Dest(k)]

\* C1, amended: such an entry is never requested and its destination is never
\* opened for it; the destination's content stays what it was before the run
\* provided no enabled entry with effective overwrite true has the same
\* destination path.
C1Amended ==
    \A k \in EnabledEntries :
        (Dest(k) \in DOMAIN files0 /\ ~EffectiveOverwrite(k)) =>
            /\ ~Requested(k)
            /\ <<"open", k>> \notin fs_log
            /\ (\A j \in EnabledEntries : Dest(j) = Dest(k) => ~EffectiveOverwrite(j))
                   => (Dest(k) \in DOMAIN files /\ files[Dest(k)] = files0[Dest(k)])

C1Witness ==
    /\ Completed
    /\ http_log # << >>
    /\ \E k \in EnabledEntries :
          /\ Dest(k) \in DOMAIN files0
          /\ ~EffectiveOverwrite(k)
          /\ files[Dest(k)] = files0[Dest(k)]

\* ------------------------------------------------------------ C2
\* C2, as stated: after a completed run in which every fetch succeeded, the
\* destination of every enabled entry with effective overwrite true holds
\* exactly the body fetched for that entry.
C2Original ==
    (Completed /\ AllFetchesOk) =>
        \A k \in EnabledEntries :
            EffectiveOverwrite(k) =>
                (Dest(k) \in DOMAIN files /\ files[Dest(k)] = ResponseContent(k))

\* C2, amended: the same, for every such entry that is not followed in
\* catalog order by another enabled entry with effective overwrite true and
\* the same destination path.
C2Amended ==
    (Completed /\ AllFetchesOk) =>
        \A k \in EnabledEntries :
            (/\ EffectiveOverwrite(k)
             /\ \A j \in EnabledEntries :
                    (j > k /\ Dest(j) = Dest(k)) => ~EffectiveOverwrite(j)) =>
                (Dest(k) \in DOMAIN files /\ files[Dest(k)] = ResponseContent(k))

C2Witness ==
    /\ Completed
    /\ AllFetchesOk
    /\ \E k \in EnabledEntries :
          /\ EffectiveOverwrite(k)
          /\ Dest(k) \in DOMAIN files0
          /\ files[Dest(k)] = ResponseContent(k)

\* ------------------------------------------------------------ C3
\* C3: for an entry with download = False no GET is ever issued, os.makedirs
\* is never called and no file is ever opened for writing.
C3Theorem ==
    \A k \in Filenames :
        ~Enabled(k) =>
            /\ ~Requested(k)
            /\ <<"makedirs", k>> \notin fs_log
            /\ <<"open", k>> \notin fs_log

C3Witness ==
    /\ Completed
    /\ \E k \in Filenames : ~Enabled(k)
    /\ \E k \in Filenames : FetchedOk(k) /\ <<"open", k>> \in fs_log

\* ------------------------------------------------------------ C4
\* The paths that hold something the run wrote.
WrittenPaths == {p \in DOMAIN files : p \notin DOMAIN files0 \/ files[p] # files0[p]}

DistinctDestinations ==
    \A j, k \in EnabledEntries : j # k => Dest(j) # Dest(k)

\* C4: a failed fetch does not end the loop.  When the run has completed,
\* every enabled entry was either requested or legitimately skipped (its file
\* exists and its effective overwrite flag is false); and if the N enabled
\* entries have distinct destinations, exactly one fetch failed and every
\* other enabled entry was fetched, then exactly N-1 files were written.
C4Theorem ==
    Completed =>
        /\ \A k \in EnabledEntries :
              Requested(k) \/ (~EffectiveOverwrite(k) /\ Dest(k) \in DOMAIN files)
        /\ (/\ DistinctDestinations
            /\ Cardinality({k \in EnabledEntries : FetchFailed(k)}) = 1
            /\ \A k \in EnabledEntries : FetchFailed(k) \/ FetchedOk(k))
              => Cardinality(WrittenPaths) = Cardinality(EnabledEntries) - 1

C4Witness ==
    /\ Completed
    /\ DistinctDestinations
    /\ Cardinality(EnabledEntries) = MaxEntries
    /\ FetchFailed(1)
    /\ \A k \in EnabledEntries : k # 1 => FetchedOk(k)
    /\ Cardinality(WrittenPaths) = MaxEntries - 1

\* ------------------------------------------------------------ C5
\* The source names whose fetch failed, in the order of the requests.
RECURSIVE FailedNames(_)
FailedNames(log) ==
    IF log = << >> THEN << >>
    ELSE IF log[1].ok THEN FailedNames(Tail(log))
    ELSE <<log[1].filename>> \o FailedNames(Tail(log))

\* C5, as stated: when the run has completed, failed_files lists exactly the
\* source names whose fetch failed, in catalog order.
C5Claim ==
    Completed => failed_files = FailedNames(http_log)

\* ------------------------------------------------------------ C6
\* C6, as stated: an OSError raised by os.makedirs, open or write is caught
\* for its entry alone, so it never reaches the handlers of __main__ and a
\* run that is not interrupted ends on the completed path.
C6Claim ==
    /\ raised # "OSError"
    /\ (pc = "exited" /\ ~interrupted) => "=== COMPLETE ===" \in console

\* ------------------------------------------------------------ C7
\* C7: the process exits with status 1 exactly when an exception other than
\* KeyboardInterrupt reached the handlers of __main__, and with status 0
\* otherwise (completed loop, with or without failed fetches, or interrupt);
\* a failed fetch never reaches those handlers.
C7Theorem ==
    /\ raised # "RequestException"
    /\ pc = "exited" =>
          /\ exit_code \in {<<0>>, <<1>>}
          /\ exit_code = <<1>> <=> raised \notin {"none", "KeyboardInterrupt"}
          /\ (Completed \/ interrupted) => exit_code = <<0>>

C7Witness ==
    /\ Completed
    /\ exit_code = <<0>>
    /\ \E k \in EnabledEntries : FetchFailed(k)

\* ------------------------------------------------------------ C8
\* C8: a step that ends with the interrupt delivered ends at the exit through
\* the interrupted path and issues no request, creates no directory and
\* writes no file; the completed path is not taken.
C8Theorem ==
    [][interrupted' =>
          /\ pc' = "exited"
          /\ raised' = "KeyboardInterrupt"
          /\ "Process interrupted by user" \in console'
          /\ "=== COMPLETE ===" \notin console'
          /\ UNCHANGED << http_log, fs_log, files, dirs >>]_vars

C8Witness ==
    /\ interrupted
    /\ pc = "exited"
    /\ i < NumToDownload
    /\ http_log # << >>

\* ------------------------------------------------------------ C9
\* C9: the requests are issued in strictly increasing catalog order, so no
\* entry is requested twice; only enabled entries are requested; and while
\* an entry is being fetched or saved every earlier request is finished: the
\* last request issued is the current entry's.
C9Theorem ==
    /\ \A m, n \in 1..Len(http_log) :
          m < n => http_log[m].filename < http_log[n].filename
    /\ \A n \in 1..Len(http_log) : Enabled(http_log[n].filename)
    /\ pc = "get" => \A n \in 1..Len(http_log) : http_log[n].filename < filename
    /\ pc = "save" => http_log[Len(http_log)].filename = filename

C9Witness ==
    /\ Completed
    /\ Len(http_log) = MaxEntries
    /\ ~http_log[1].ok

\* ------------------------------------------------------------ C10
\* C10: when the run has completed and two enabled entries j < k with
\* effective overwrite true have the same destination, both were fetched,
\* and no later such entry has that destination, the destination holds the
\* response body of k.
C10Theorem ==
    Completed =>
        \A j, k \in EnabledEntries :
            (/\ j < k
             /\ Dest(j) = Dest(k)
             /\ EffectiveOverwrite(j) /\ EffectiveOverwrite(k)
             /\ FetchedOk(j) /\ FetchedOk(k)
             /\ \A l \in EnabledEntries :
                    (l > k /\ Dest(l) = Dest(k)) => ~EffectiveOverwrite(l))
              => files[Dest(k)] = ResponseContent(k)

C10Witness ==
    /\ Completed
    /\ \E j, k \in EnabledEntries :
          /\ j < k
          /\ Dest(j) = Dest(k)
          /\ EffectiveOverwrite(j) /\ EffectiveOverwrite(k)
          /\ FetchedOk(j) /\ FetchedOk(k)
          /\ files[Dest(k)] = ResponseContent(k)

\* ------------------------------------------------------------ C13
\* The entries whose processing is over: the loop has moved past them.
Processed == {files_to_download[n] : n \in 1..(i - 1)}

FinalEntry == files_to_download[NumToDownload]

\* C13, as stated: once the loop has moved past an enabled entry that is not
\* the final one, time.sleep(1) has run after it, whether it was written,
\* skipped or its fetch failed; it never runs after the final entry.
C13Claim ==
    /\ \A k \in Processed : k # FinalEntry => k \in slept
    /\ NumToDownload > 0 => FinalEntry \notin slept

\* ------------------------------------------------------------ C14
\* C14, as stated: the directory of every processed entry exists, and
\* created_dirs holds no directory that existed before the run.
C14Claim ==
    /\ \A k \in Processed : geojson_files[k].directory \in dirs
    /\ created_dirs \cap dirs0 = {}

\* ------------------------------------------------------------ C15
WrittenEntries == {k \in Filenames : <<"written", k>> \in fs_log}

\* C15: the destination of an entry whose fetch failed is never opened for
\* that entry, and when no other enabled entry has the same destination the
\* file is as it was before the run (absent, or with the same content);
\* success_count is the number of entries written so far and is at most the
\* number of enabled entries.
C15Theorem ==
    /\ \A k \in EnabledEntries :
          FetchFailed(k) =>
              /\ <<"open", k>> \notin fs_log
              /\ (\A j \in EnabledEntries : j # k => Dest(j) # Dest(k)) =>
                    IF Dest(k) \in DOMAIN files0
                    THEN Dest(k) \in DOMAIN files /\ files[Dest(k)] = files0[Dest(k)]
                    ELSE Dest(k) \notin DOMAIN files
    /\ success_count = Cardinality(WrittenEntries)
    /\ success_count <= Cardinality(EnabledEntries)

C15Witness ==
    /\ Completed
    /\ success_count = MaxEntries - 1
    /\ \E k \in EnabledEntries :
          /\ FetchFailed(k)
          /\ Dest(k) \in DOMAIN files0
          /\ files[Dest(k)] = OldContent

\* ============================================================
\* Index Generator (generate_index.py).  Strings are sequences of code
\* points, so that suffix tests, ordinal comparison and the replacement of
\* separators are computed on characters.
\* ------------------------------------------------------------ bounds
\* Most files the tree under "features" holds.
MaxFiles == 3

\* Number of calls of generate_index_html.
MaxCalls == 2

\* ------------------------------------------------------------ strings
\* base_github_url
base_github_url ==
    <<104, 116, 116, 112, 115, 58, 47, 47, 100, 118, 97, 110, 97, 117, 107, 101, 110, 46, 103, 105, 116, 104, 117, 98, 46, 105, 111, 47, 100, 97, 116, 97>>

\* features_root
features_root == <<102, 101, 97, 116, 117, 114, 101, 115>>

\* '.geojson'
Extension == <<46, 103, 101, 111, 106, 115, 111, 110>>

\* The file names the model puts in directories: "a.geojson", "B.geojson",
\* "ab.geojson", and one that does not match, "c.txt".
IxFileNames ==
    { <<97, 46, 103, 101, 111, 106, 115, 111, 110>>,
      <<66, 46, 103, 101, 111, 106, 115, 111, 110>>,
      <<97, 98, 46, 103, 101, 111, 106, 115, 111, 110>>,
      <<99, 46, 116, 120, 116>> }

\* The names of the subdirectories of "features": "admin", "land".
IxDirNames ==
    { <<97, 100, 109, 105, 110>>,
      <<108, 97, 110, 100>> }

\* str.endswith
EndsWith(str, suffix) ==
    /\ Len(str) >= Len(suffix)
    /\ SubSeq(str, Len(str) - Len(suffix) + 1, Len(str)) = suffix

\* str.replace(old, new) for one-character old and new
Replace(str, old, new) ==
    [n \in 1..Len(str) |-> IF str[n] = old THEN new ELSE str[n]]

\* str < str: comparison by code point, a proper prefix is smaller.
RECURSIVE StrLess(_, _)
StrLess(a, b) ==
    IF b = << >> THEN FALSE
    ELSE IF a = << >> THEN TRUE
    ELSE IF a[1] # b[1] THEN a[1] < b[1]
    ELSE StrLess(Tail(a), Tail(b))

\* os.path.join(a, b) for a relative b
Join(a, b) == a \o <<ix_sep>> \o b

\* The current working directory: "/w" or "\w".
Cwd == <<ix_sep, 119>>

\* os.path.abspath of a relative path without "." and ".." components
AbsPath(path) == Join(Cwd, path)

\* os.path.relpath(path): the absolute path, less the working directory.
RelPath(path) ==
    LET abs == AbsPath(path)
        start == Cwd \o <<ix_sep>>
    IN  IF SubSeq(abs, 1, Len(start)) = start
        THEN SubSeq(abs, Len(start) + 1, Len(abs))
        ELSE abs

\* ------------------------------------------------------------ file system
\* Sequences without repetition of at most n elements of S: a directory
\* listing, in the order the file system returns it.
Listings(S, n) ==
    { l \in UNION { [1..m -> S] : m \in 0..n } :
        \A a, b \in DOMAIN l : a # b => l[a] # l[b] }

\* A directory without subdirectories.
LeafDir(l) == [files |-> l, dirs |-> << >>]

\* The trees whose top directory lists the files l: no subdirectory, one, or
\* two, with at most MaxFiles files in all.
TreesWithFiles(l) ==
    LET rest == MaxFiles - Len(l)
        Sub(n, fs) == [name |-> n, dir |-> LeafDir(fs)]
    IN  {[files |-> l, dirs |-> << >>]}
        \cup { [files |-> l, dirs |-> <<Sub(n, l1)>>] :
                 n \in IxDirNames, l1 \in Listings(IxFileNames, rest) }
        \cup UNION { UNION { { [files |-> l, dirs |-> <<Sub(n1, l1), Sub(n2, l2)>>] :
                                 n2 \in IxDirNames \ {n1},
                                 l2 \in Listings(IxFileNames, rest - Len(l1)) } :
                             l1 \in Listings(IxFileNames, rest) } :
                     n1 \in IxDirNames }

\* The directory "features": files, and subdirectories one level down.
FeatureTrees ==
    UNION { TreesWithFiles(l) : l \in Listings(IxFileNames, MaxFiles) }

\* os.walk(top), top-down: the triple of top (its dirs left out: the loop
\* does not read them), then the walk of each subdirectory in listing order.
RECURSIVE Walk(_, _), WalkDirs(_, _)
Walk(top, d) ==
    <<[root |-> top, files |-> d.files]>> \o WalkDirs(top, d.dirs)
WalkDirs(top, subdirs) ==
    IF subdirs = << >> THEN << >>
    ELSE Walk(Join(top, subdirs[1].name), subdirs[1].dir) \o WalkDirs(top, Tail(subdirs))

\* ------------------------------------------------------------ generate_index_html
\* Lines 28-35: the record of one matching file.
FileRecord(root, file) ==
    [filename |-> file,
     url |-> base_github_url \o <<Slash>> \o
             Replace(RelPath(Join(root, file)), Backslash, Slash)]

\* Lines 26-35: the inner loop over the files of one directory.
RECURSIVE CollectFiles(_, _)
CollectFiles(root, fs) ==
    IF fs = << >> THEN << >>
    ELSE (IF EndsWith(fs[1], Extension) THEN <<FileRecord(root, fs[1])>> ELSE << >>)
         \o CollectFiles(root, Tail(fs))

\* Lines 25-35: the outer loop over the walk.
RECURSIVE Collect(_)
Collect(walk) ==
    IF walk = << >> THEN << >>
    ELSE CollectFiles(walk[1].root, walk[1].files) \o Collect(Tail(walk))

\* Line 23: geojson_files = []
NewListMutKept == ix_geojson_files
NewList == << >>

\* Line 38: key=lambda x: x['filename'] (ToLower serves the case-folding variant)
ToLower(str) ==
    [n \in 1..Len(str) |-> IF str[n] >= 65 /\ str[n] <= 90 THEN str[n] + 32 ELSE str[n]]
SortKeyMutLower(x) == ToLower(x.filename)
SortKey(x) == x.filename

\* list.sort(key=...): a stable sort.  x goes behind every element whose key
\* is not greater than its own.
SortInsert(sorted, x) ==
    LET n == Cardinality({m \in DOMAIN sorted :
                            ~StrLess(SortKey(x), SortKey(sorted[m]))})
    IN  SubSeq(sorted, 1, n) \o <<x>> \o SubSeq(sorted, n + 1, Len(sorted))

RECURSIVE Sort(_)
Sort(list) ==
    IF list = << >> THEN << >>
    ELSE SortInsert(Sort(SubSeq(list, 1, Len(list) - 1)), list[Len(list)])

\* strftime('%Y-%m-%d %H:%M:%S') of a clock that counts half seconds.
StrfTime(t) == t \div 2

\* Lines 41-58: the document, by its parts.
Html(list, t) ==
    [generated |-> StrfTime(t),
     total |-> Len(list),
     items |-> [n \in DOMAIN list |-> [href |-> list[n].url, text |-> list[n].filename]]]

\* generate_index_html() when "features" exists.
GenerateIndex ==
    /\ ix_calls < MaxCalls
    /\ ix_tree # << >>
    /\ \E elapsed \in {0, 1} : ix_now' = ix_now + elapsed
    /\ ix_geojson_files' = Sort(NewList \o Collect(Walk(features_root, ix_tree[1])))
    /\ index_html' = <<Html(ix_geojson_files', ix_now')>>
    /\ ix_docs' = Append(ix_docs, Html(ix_geojson_files', ix_now'))
    /\ ix_console' = Append(ix_console,
                            [msg |-> "Generated", count |-> Len(ix_geojson_files')])
    /\ ix_calls' = ix_calls + 1
    /\ UNCHANGED << dlvars, ix_sep, ix_tree >>

\* generate_index_html() when "features" does not exist (lines 18-20).
GenerateIndexNoRoot ==
    /\ ix_calls < MaxCalls
    /\ ix_tree = << >>
    /\ \E elapsed \in {0, 1} : ix_now' = ix_now + elapsed
    /\ ix_console' = Append(ix_console, [msg |-> "ERROR", count |-> 0])
    /\ ix_calls' = ix_calls + 1
    /\ UNCHANGED << dlvars, ix_sep, ix_tree, index_html, ix_geojson_files, ix_docs >>

InitIndex ==
    /\ ix_sep \in {Slash, Backslash}
    /\ ix_tree \in {<< >>} \cup { <<d>> : d \in FeatureTrees }
    /\ index_html = << >>
    /\ ix_now = 0
    /\ ix_geojson_files = << >>
    /\ ix_docs = << >>
    /\ ix_calls = 0
    /\ ix_console = << >>
    /\ geojson_files = << >>
    /\ should_overwrite = TRUE
    /\ dirs = {}
    /\ files = << >>
    /\ dirs0 = dirs
    /\ files0 = files
    /\ i = 1
    /\ pc = "summary"
    /\ success_count = 0
    /\ failed_files = << >>
    /\ created_dirs = {}
    /\ response = << >>
    /\ http_log = << >>
    /\ fs_log = {}
    /\ slept = {}
    /\ interrupted = FALSE
    /\ raised = "none"
    /\ console = {}
    /\ exit_code = << >>

NextIndex ==
    \/ GenerateIndex
    \/ GenerateIndexNoRoot

SpecIndex == InitIndex /\ [][NextIndex]_vars

\* ------------------------------------------------------------ vocabulary
\* of the Index Generator's properties, stated on the tree itself.
\* The files under "features", each as <<file>> or <<subdirectory, file>>.
IxAllFiles ==
    IF ix_tree = << >> THEN {}
    ELSE LET t == ix_tree[1]
         IN  { <<t.files[n]>> : n \in DOMAIN t.files }
             \cup UNION { { <<t.dirs[m].name, t.dirs[m].dir.files[n]>> :
                              n \in DOMAIN t.dirs[m].dir.files } :
                          m \in DOMAIN t.dirs }

\* The name is some stem followed by ".geojson".
HasGeojsonExtension(name) ==
    \E n \in 0..Len(name) : name = SubSeq(name, 1, n) \o <<46, 103, 101, 111, 106, 115, 111, 110>>

IxMatching == { p \in IxAllFiles : HasGeojsonExtension(p[Len(p)]) }

\* remote_base_url + "/" + the path relative to the working directory,
\* written with "/".
ExpectedUrl(p) ==
    base_github_url \o <<47>> \o <<102, 101, 97, 116, 117, 114, 101, 115>> \o <<47>> \o
    (IF Len(p) = 1 THEN p[1] ELSE p[1] \o <<47>> \o p[2])

\* a = b or a precedes b in ordinal, case-sensitive order: a is a prefix of
\* b, or at the first position where they differ a has the smaller code point.
OrdinalLeq(a, b) ==
    \/ (Len(a) <= Len(b) /\ a = SubSeq(b, 1, Len(a)))
    \/ \E n \in 1..Len(a) :
          /\ n <= Len(b)
          /\ SubSeq(a, 1, n - 1) = SubSeq(b, 1, n - 1)
          /\ a[n] < b[n]

\* ------------------------------------------------------------ C11
\* C11: the list of index.html has exactly one item per file under "features"
\* whose name ends with ".geojson", with the file's name as text and
\* base_github_url + "/" + its relative path as link; the items are in
\* ascending ordinal order of file name; the total is the number of items.
C11Theorem ==
    index_html # << >> =>
        LET doc == index_html[1]
        IN  /\ Len(doc.items) = Cardinality(IxMatching)
            /\ { <<doc.items[n].text, doc.items[n].href>> : n \in DOMAIN doc.items }
                  = { <<p[Len(p)], ExpectedUrl(p)>> : p \in IxMatching }
            /\ \A m, n \in DOMAIN doc.items :
                  m < n => OrdinalLeq(doc.items[m].text, doc.items[n].text)
            /\ doc.total = Len(doc.items)

C11Witness ==
    /\ index_html # << >>
    /\ ix_sep = Backslash
    /\ <<<<99, 46, 116, 120, 116>>>> \in IxAllFiles
    /\ \E m, n \in DOMAIN index_html[1].items :
          /\ m < n
          /\ index_html[1].items[m].text = <<66, 46, 103, 101, 111, 106, 115, 111, 110>>
          /\ index_html[1].items[n].text = <<97, 46, 103, 101, 111, 106, 115, 111, 110>>
    /\ index_html[1].total = 2

====
